---- MODULE Spec2Model ----
(***************************************************************************)
(* Label rasterisation (geopackage_to_label_v2.py), probability merge      *)
(* (merge_probs_with_numpy.py) and raster cropping (crop_to_shapefile.py)  *)
(* of multi_channel_dataset_creation.                                      *)
(*                                                                         *)
(* Geometry is planar and axis aligned.  A polygon is a rectangle          *)
(* [xmin, xmax, ymin, ymax] in ground units, y measured downwards from the *)
(* top edge of the tile plane (the affine transform's e is negative and    *)
(* only abs(e) is used by the code).  A raster grid has its upper-left     *)
(* corner at ground x = ox * xres, y = 0.                                  *)
(***************************************************************************)
EXTENDS Integers, Sequences, FiniteSets

\* ------------------------------------------------------------------ bounds
GridH == 2
GridW == 4
MaxPolys == 2
MaxBorder == 3

\* Python's None for the Optional[int] arguments; never a uint8 value.
None == 0 - 1
\* Python's None for the Optional[str] argument attr_column.
NoneStr == "None"
\* An attr_column argument that is not a str (fails the isinstance test).
NotAStr == "<int 7>"

Max(S) == CHOOSE x \in S : \A y \in S : y <= x
Min(S) == CHOOSE x \in S : \A y \in S : x <= y

\* ---------------------------------------------------------- Geometry Store
\* Columns of the GeoDataFrame produced by the load step.
GdfColumns == {"geometry", "ML_CATEGORY", "area"}

\* gdf.geometry.area of a rectangle.
Area(geom) == (geom.xmax - geom.xmin) * (geom.ymax - geom.ymin)

\* box(*bounds) of a grid: (left, bottom, right, top) as a rectangle.
BBox(grid) ==
  [xmin |-> grid.ox * grid.xres,
   xmax |-> (grid.ox + grid.width) * grid.xres,
   ymin |-> 0,
   ymax |-> grid.height * grid.yres]

\* shapely intersects: the closed rectangles share at least one point
\* (a shared edge or corner counts).
Intersects(geom, bbox) ==
  /\ geom.xmin <= bbox.xmax
  /\ geom.xmax >= bbox.xmin
  /\ geom.ymin <= bbox.ymax
  /\ geom.ymax >= bbox.ymin

Rows(grid) == 1 .. grid.height
Cols(grid) == 1 .. grid.width
Pixels(grid) == Rows(grid) \X Cols(grid)

\* rasterize(all_touched=False): a pixel is burned when its centre lies
\* inside the polygon.  Centre of pixel <<r, c>> is at
\* x = (ox + c - 1/2) * xres, y = (r - 1/2) * yres; compared doubled.
CentreInside(geom, grid, p) ==
  LET cx2 == (2 * (grid.ox + p[2]) - 1) * grid.xres
      cy2 == (2 * p[1] - 1) * grid.yres
  IN  /\ 2 * geom.xmin < cx2
      /\ cx2 < 2 * geom.xmax
      /\ 2 * geom.ymin < cy2
      /\ cy2 < 2 * geom.ymax

\* Mutation: the spatial filter keeps every row.
IntersectingSubset_unfiltered(gdf, bbox) == gdf

\* gdf[gdf.geometry.intersects(bbox)]: the rows kept, in store order.
IntersectingSubset(gdf, bbox) ==
  SelectSeq(gdf, LAMBDA rec : Intersects(rec.geometry, bbox))

RemoveAt(s, i) == SubSeq(s, 1, i - 1) \o SubSeq(s, i + 1, Len(s))

\* Lines 82-83: the "area" column is computed from the geometry only when
\* the frame does not carry one already.
WithArea(subset, columns) ==
  [i \in 1 .. Len(subset) |->
     [geometry |-> subset[i].geometry,
      ML_CATEGORY |-> subset[i].ML_CATEGORY,
      area |-> IF "area" \in columns THEN subset[i].area
               ELSE Area(subset[i].geometry)]]

\* gdf_subset.columns once lines 82-83 have run.
SubsetColumns(columns) == columns \cup {"area"}

\* Position of the first row holding the largest area.
FirstMaxArea(s) ==
  Min({i \in 1 .. Len(s) : \A j \in 1 .. Len(s) : s[j].area <= s[i].area})

\* Position of the first row holding the smallest area.
FirstMinArea(s) ==
  Min({i \in 1 .. Len(s) : \A j \in 1 .. Len(s) : s[i].area <= s[j].area})

\* Mutation: ascending=True, the sort order of the superseded variant.
RECURSIVE sort_values_ascending(_)
sort_values_ascending(s) ==
  IF s = <<>> THEN <<>>
  ELSE LET i == FirstMinArea(s)
       IN  <<s[i]>> \o sort_values_ascending(RemoveAt(s, i))

\* sort_values(by="area", ascending=False): area descending; rows of equal
\* area keep their store order (pandas reverses, argsorts and reverses back,
\* and numpy's sort kernel is an insertion sort on inputs this small).
RECURSIVE sort_values(_)
sort_values(s) ==
  IF s = <<>> THEN <<>>
  ELSE LET i == FirstMaxArea(s)
       IN  <<s[i]>> \o sort_values(RemoveAt(s, i))

\* Mutation: the cached area burned instead of the class.
Shapes_area_as_value(subset, attr_column, value_used_for_all_polygons) ==
  [i \in 1 .. Len(subset) |->
     [geometry |-> subset[i].geometry, value |-> 10 + subset[i].area]]

\* The (geometry, value) pairs handed to rasterize.
Shapes(subset, attr_column, value_used_for_all_polygons) ==
  [i \in 1 .. Len(subset) |->
     [geometry |-> subset[i].geometry,
      value |-> IF value_used_for_all_polygons # None
                THEN value_used_for_all_polygons
                ELSE subset[i][attr_column]]]

\* rasterio.features.rasterize: shapes are burned in list order, a later
\* shape overwrites an earlier one; untouched pixels keep fill.
rasterize(shapes, grid, fill) ==
  [p \in Pixels(grid) |->
     LET hits == {i \in 1 .. Len(shapes) : CentreInside(shapes[i].geometry, grid, p)}
     IN  IF hits = {} THEN fill ELSE shapes[Max(hits)].value]

\* np.pad(mode="edge") and the four shifted comparisons: a pixel differs
\* from its N, S, W or E neighbour; outside the grid the neighbour is the
\* pixel itself.
Neighbours(grid, p) ==
  {q \in Pixels(grid) :
     \/ q[1] = p[1] /\ (q[2] = p[2] - 1 \/ q[2] = p[2] + 1)
     \/ q[2] = p[2] /\ (q[1] = p[1] - 1 \/ q[1] = p[1] + 1)}

\* Mutation: only diff_n and diff_w, the comparison with the neighbour
\* above and the one to the left.
boundary_mask_north_west_only(label_array, grid) ==
  {p \in Pixels(grid) :
     \E q \in Neighbours(grid, p) :
       (q[1] < p[1] \/ q[2] < p[2]) /\ label_array[q] # label_array[p]}

boundary_mask(label_array, grid) ==
  {p \in Pixels(grid) : \E q \in Neighbours(grid, p) : label_array[q] # label_array[p]}

\* scipy.ndimage.distance_transform_edt(~boundary_mask), squared.  With no
\* boundary pixel at all the feature transform keeps its initial indices
\* (-1 on axis 0, 0 on axis 1), so the distance is measured to the cell
\* one row above the first row, in the first column.
dt_map_sq(mask, grid) ==
  [p \in Pixels(grid) |->
     IF mask = {}
     THEN p[1] * p[1] + (p[2] - 1) * (p[2] - 1)
     ELSE Min({(p[1] - q[1]) * (p[1] - q[1]) + (p[2] - q[2]) * (p[2] - q[2]) : q \in mask})]

\* Mutation: dt_map <= pixel_border_width / 2.
border_mask_inclusive(dt_sq, grid, unknown_border_size) ==
  {p \in Pixels(grid) :
     /\ unknown_border_size >= 0
     /\ dt_sq[p] * (grid.xres + grid.yres) * (grid.xres + grid.yres)
          <= unknown_border_size * unknown_border_size}

\* Mutation: the comparison turned round, dt_map > pixel_border_width / 2.
border_mask_inverted(dt_sq, grid, unknown_border_size) ==
  {p \in Pixels(grid) :
     \/ unknown_border_size < 0
     \/ dt_sq[p] * (grid.xres + grid.yres) * (grid.xres + grid.yres)
          > unknown_border_size * unknown_border_size}

\* dt_map < pixel_border_width / 2, with
\* pixel_border_width = unknown_border_size / ((x_res + y_res) / 2):
\* dt < unknown_border_size / (x_res + y_res), compared squared.
border_mask(dt_sq, grid, unknown_border_size) ==
  {p \in Pixels(grid) :
     /\ unknown_border_size > 0
     /\ dt_sq[p] * (grid.xres + grid.yres) * (grid.xres + grid.yres)
          < unknown_border_size * unknown_border_size}

\* Lines 108-120: the unknown-border carving pass on a label array.
CarveBorder(label_array, grid, unknown_border_size, ignore_value) ==
  LET mask == boundary_mask(label_array, grid)
      dt_sq == dt_map_sq(mask, grid)
      carved == border_mask(dt_sq, grid, unknown_border_size)
  IN  [p \in Pixels(grid) |-> IF p \in carved THEN ignore_value ELSE label_array[p]]

\* ------------------------------------------------------ frame objects
\* The GeoDataFrame objects alive during one call, in the order they are
\* made: an object is its rows and its columns, its identity is its place
\* in the sequence.  Object 1 is the frame the caller passes as gdf.

\* gdf[mask]: boolean indexing makes a new frame of the rows selected.
getitem_intersects(objects, obj, bbox) ==
  Append(objects, [rows |-> IntersectingSubset(objects[obj].rows, bbox),
                   columns |-> objects[obj].columns])

\* .copy(): a new object with the same content.
copy(objects, obj) == Append(objects, objects[obj])

\* frame["area"] = frame.geometry.area: the column is written into the
\* object itself.
setitem_area(objects, obj) ==
  [objects EXCEPT ![obj] = [rows |-> WithArea(@.rows, @.columns),
                            columns |-> SubsetColumns(@.columns)]]

\* frame.sort_values(by="area", ascending=False), without inplace: a new
\* object, the one sorted stays as it was.
sort_values_frame(objects, obj) ==
  Append(objects, [rows |-> sort_values(objects[obj].rows),
                   columns |-> objects[obj].columns])

\* Lines 73-84 on the objects: gdf_subset is bound to the copy (object 3)
\* at line 73 and, when it has rows, to the sorted frame (object 4) at
\* line 84; the name is always bound to the object made last.
frames_of_call(gdf, columns, grid) ==
  LET passed == <<[rows |-> gdf, columns |-> columns]>>
      masked == getitem_intersects(passed, 1, BBox(grid))
      copied == copy(masked, 2)
  IN  IF copied[3].rows = <<>> THEN copied
      ELSE sort_values_frame(
             IF "area" \notin copied[3].columns THEN setitem_area(copied, 3)
             ELSE copied, 3)

Raised(exc) == [exc |-> exc, label_array |-> <<>>]
Returned(arr) == [exc |-> "none", label_array |-> arr]

\* process_single_raster_labels.
process_single_raster_labels(gdf, columns, grid, unknown_border_size, background_value, ignore_value, attr_column, value_used_for_all_polygons) ==
  IF value_used_for_all_polygons # None /\ attr_column # NoneStr
  THEN Raised("ValueError")
  ELSE IF value_used_for_all_polygons = None /\ attr_column = NoneStr
  THEN Raised("ValueError")
  ELSE IF attr_column # NoneStr /\ attr_column = NotAStr
  THEN Raised("TypeError")
  ELSE
    LET frames == frames_of_call(gdf, columns, grid)
        gdf_subset == frames[Len(frames)]
        fill_value == IF background_value # None THEN background_value ELSE ignore_value
    IN  IF gdf_subset.rows = <<>>
        THEN Returned([p \in Pixels(grid) |-> fill_value])
        ELSE IF value_used_for_all_polygons = None
                /\ attr_column \notin gdf_subset.columns
        THEN Raised("ValueError")
        ELSE
          LET shapes == Shapes(gdf_subset.rows, attr_column, value_used_for_all_polygons)
              label_array == rasterize(shapes, grid, fill_value)
          IN  Returned(CarveBorder(label_array, grid, unknown_border_size, ignore_value))

\* Mutation: lines 73-84 done on the passed frame itself (no copy, the
\* area column set and the rows sorted in place).
gdf_after_call_in_place(gdf, columns, grid) ==
  LET gdf_subset == IntersectingSubset(gdf, BBox(grid))
  IN  IF gdf_subset = <<>> THEN [rows |-> gdf, columns |-> columns]
      ELSE [rows |-> sort_values(WithArea(gdf_subset, columns)),
            columns |-> columns \cup {"area"}]

\* The frame passed as gdf, as the caller finds it once lines 73-84 have
\* run: object 1 of the call's frame objects.
gdf_after_call(gdf, columns, grid) == frames_of_call(gdf, columns, grid)[1]

\* ------------------------------------------------------------------ state
VARIABLES
  call,      \* arguments of the pending / finished process_single_raster_labels call
  ret,       \* what that call returned or raised ("pending" before it ran)
  recarved,  \* the returned array after one more carving pass (<<>> before)
  \* process_label_generation_main
  args,         \* its arguments
  geopackage,   \* the rows gpd.read_file yields for the GeoPackage
  found,        \* what is on disk under input_folder, as glob lists it
  outputs,      \* output path -> the file at that path
  pc,           \* position in process_label_generation_main
  gdf,          \* the loaded frame: [rows, columns]
  raster_files, \* the list the processing loop runs over
  idx,          \* 1-based position of the loop in raster_files
  opened,       \* positions of raster_files opened for reading so far
  exc,          \* the exception that ended the run ("none" while it runs)
  \* merge_with_numpy
  merge,        \* its locals: pc, image_paths (their number), im, summed, failed, pred
  \* crop_geotiff
  crop          \* its arguments and locals, and the files it works on

labelVars == <<call, ret, recarved>>
mainVars == <<args, geopackage, found, outputs, pc, gdf, raster_files, idx, opened, exc>>
vars == <<call, ret, recarved, args, geopackage, found, outputs, pc, gdf, raster_files,
          idx, opened, exc, merge, crop>>

\* process_label_generation_main is not running.
MainIdle ==
  /\ args = <<>> /\ geopackage = <<>> /\ found = <<>> /\ outputs = <<>>
  /\ pc = "idle" /\ gdf = <<>> /\ raster_files = <<>> /\ idx = 0
  /\ opened = {} /\ exc = "none"

\* No process_single_raster_labels call is being driven directly.
LabelIdle ==
  /\ call = <<>>
  /\ ret = [exc |-> "idle", label_array |-> <<>>]
  /\ recarved = <<>>

\* merge_with_numpy is not running.
MergeIdle == merge = <<>>

\* crop_geotiff is not running.
CropIdle == crop = <<>>

\* ------------------------------------------------------- builder inputs
\* Pixel sizes <<x_res, y_res>> of the reference grids, in ground units.
PixelSizes == {<<1, 1>>, <<2, 1>>}

\* The reference grid of the label builder runs: GridH x GridW pixels.
TileGrid(size) ==
  [height |-> GridH, width |-> GridW, xres |-> size[1], yres |-> size[2], ox |-> 0]

ClassValues == {1, 2}

\* <<background_value, ignore_value>> pairs the runs are configured with.
FillPairs == {<<None, 0>>, <<1, 0>>, <<1, 3>>}

\* A rectangle given in pixel edges of a grid (column edges x0..x1 counted
\* from the grid's left edge, row edges y0..y1 from its top), in ground units.
Rect(x0, x1, y0, y1, grid) ==
  [xmin |-> x0 * grid.xres, xmax |-> x1 * grid.xres,
   ymin |-> y0 * grid.yres, ymax |-> y1 * grid.yres]

\* Polygon footprints: a large one, a small one inside it, one of the large
\* one's area overlapping it, one that only touches the tile's right edge,
\* and one away from the tile.
OuterPoly(grid) == Rect(0, grid.width - 1, 0, grid.height, grid)
InnerPoly(grid) == Rect(1, 2, 0, 1, grid)
TwinPoly(grid) == Rect(1, grid.width, 0, grid.height, grid)
TouchPoly(grid) == Rect(grid.width, grid.width + 1, 0, grid.height, grid)
FarPoly(grid) == Rect(grid.width + 1, grid.width + 2, 0, grid.height, grid)

Footprints(grid) ==
  {OuterPoly(grid), InnerPoly(grid), TwinPoly(grid), TouchPoly(grid), FarPoly(grid)}

\* A row of the frame after the load step: geometry, uint8 class, cached area.
PolygonRecords(grid) ==
  {[geometry |-> g, ML_CATEGORY |-> c, area |-> Area(g)] :
     g \in Footprints(grid), c \in ClassValues}

\* Stores: sequences of up to MaxPolys rows with pairwise different geometry.
RECURSIVE StoresOfLen(_, _)
StoresOfLen(n, grid) ==
  IF n = 0 THEN {<<>>}
  ELSE {Append(s, rec) : s \in StoresOfLen(n - 1, grid), rec \in PolygonRecords(grid)}

DistinctGeometry(s) ==
  \A i, j \in 1 .. Len(s) : i # j => s[i].geometry # s[j].geometry

Stores(grid) ==
  {s \in UNION {StoresOfLen(n, grid) : n \in 0 .. MaxPolys} : DistinctGeometry(s)}

AttrColumnArgs == {NoneStr, "ML_CATEGORY", "area", "no_such_column", NotAStr}
ConstantValueArgs == {None, 2}

\* The calls made: <<attr_column, value_used_for_all_polygons, whether the
\* frame carries an area column>>.  Every pair of mode arguments on a frame
\* with its area column, bar the rejected pairs that only repeat the
\* "both given" error, and the two column names of the frame on a frame
\* without it.
BuilderModes ==
  {m \in AttrColumnArgs \X ConstantValueArgs \X BOOLEAN :
     \/ m[3] /\ (m[2] = None \/ m[1] \in {NoneStr, "ML_CATEGORY"})
     \/ ~m[3] /\ m[2] = None /\ m[1] \in {"ML_CATEGORY", "area"}}

\* A frame that was not given its area column: the rows without the field.
WithoutArea(store) ==
  [i \in 1 .. Len(store) |->
     [geometry |-> store[i].geometry, ML_CATEGORY |-> store[i].ML_CATEGORY]]

LabelInit ==
  /\ \E size \in PixelSizes :
     \E store \in Stores(TileGrid(size)) :
     \E ubs \in 0 .. MaxBorder :
     \E fp \in FillPairs :
     \E mode \in BuilderModes :
       call = [gdf |-> IF mode[3] THEN store ELSE WithoutArea(store),
               columns |-> IF mode[3] THEN GdfColumns ELSE GdfColumns \ {"area"},
               grid |-> TileGrid(size),
               unknown_border_size |-> ubs, background_value |-> fp[1],
               ignore_value |-> fp[2], attr_column |-> mode[1],
               value_used_for_all_polygons |-> mode[2]]
  /\ ret = [exc |-> "pending", label_array |-> <<>>]
  /\ recarved = <<>>
  /\ MainIdle
  /\ MergeIdle
  /\ CropIdle

\* One call of process_single_raster_labels.
CallBuilder ==
  /\ ret.exc = "pending"
  /\ ret' = process_single_raster_labels(call.gdf, call.columns, call.grid,
               call.unknown_border_size, call.background_value, call.ignore_value,
               call.attr_column, call.value_used_for_all_polygons)
  /\ UNCHANGED <<call, recarved>>
  /\ UNCHANGED <<mainVars, merge, crop>>

\* The carving pass of lines 108-120 run once more, with the same border
\* width, on the array of a call that went through it (some polygon
\* intersected the tile).
SecondPass ==
  /\ ret.exc = "none"
  /\ IntersectingSubset(call.gdf, BBox(call.grid)) # <<>>
  /\ recarved = <<>>
  /\ recarved' = CarveBorder(ret.label_array, call.grid, call.unknown_border_size,
                             call.ignore_value)
  /\ UNCHANGED <<call, ret>>
  /\ UNCHANGED <<mainVars, merge, crop>>

LabelNext == CallBuilder \/ SecondPass

SpecLabel == LabelInit /\ [][LabelNext]_vars

\* The builder called once, the array not carved again.
SpecCall == LabelInit /\ [][CallBuilder]_vars

\* ---------------------------------------------- builder on a 10 x 10 tile
\* A tile of 10 x 10 square pixels.
SquareGrid(res) == [height |-> 10, width |-> 10, xres |-> res, yres |-> res, ox |-> 0]

\* One polygon covering the columns left of a seam, over the full height.
LeftPart(seam, cls, grid) ==
  LET g == Rect(0, seam, 0, grid.height, grid)
  IN  <<[geometry |-> g, ML_CATEGORY |-> cls, area |-> Area(g)]>>

ScenarioInit ==
  /\ \E res \in {1, 2} :
     \E seam \in 1 .. 9 :
     \E cls \in {2, 3} :
     \E ubs \in 0 .. MaxBorder :
     \E fp \in FillPairs :
       call = [gdf |-> LeftPart(seam, cls, SquareGrid(res)), columns |-> GdfColumns,
               grid |-> SquareGrid(res), unknown_border_size |-> ubs,
               background_value |-> fp[1], ignore_value |-> fp[2],
               attr_column |-> "ML_CATEGORY", value_used_for_all_polygons |-> None]
  /\ ret = [exc |-> "pending", label_array |-> <<>>]
  /\ recarved = <<>>
  /\ MainIdle
  /\ MergeIdle
  /\ CropIdle

SpecScenario == ScenarioInit /\ [][CallBuilder]_vars

\* ------------------------------------------ process_label_generation_main
MaxRasters == 2

\* A missing (null) attribute value of a GeoPackage row.
Missing == 0 - 2

\* The grid of a reference raster: GridH x GridW pixels of size 1, its left
\* edge ox pixels to the right of the origin.
RasterGrid(file) ==
  [height |-> GridH, width |-> GridW, xres |-> 1, yres |-> 1, ox |-> file.ox]

OriginGrid == RasterGrid([ox |-> 0])

RawRow(geom, value) == [geometry |-> geom, ML_CATEGORY |-> value]

\* GeoPackages on disk: a nested pair, a row whose class exceeds 255, and a
\* row without class value in front of a classified one.
GeoPackages ==
  {<<RawRow(OuterPoly(OriginGrid), 1), RawRow(InnerPoly(OriginGrid), 2)>>,
   <<RawRow(OuterPoly(OriginGrid), 258)>>,
   <<RawRow(InnerPoly(OriginGrid), Missing), RawRow(OuterPoly(OriginGrid), 1)>>}

GeoPackageColumns == {"geometry", "ML_CATEGORY"}

\* Raster files that can be on disk: two of the same file name in different
\* folders (the second one's tile lies away from all polygons) and a .tiff.
RasterPaths ==
  {[path |-> "a.tif", name |-> "a.tif", suffix |-> ".tif", ox |-> 0],
   [path |-> "sub/a.tif", name |-> "a.tif", suffix |-> ".tif", ox |-> GridW + 3],
   [path |-> "b.tiff", name |-> "b.tiff", suffix |-> ".tiff", ox |-> 0]}

RECURSIVE ListingsOfLen(_)
ListingsOfLen(n) ==
  IF n = 0 THEN {<<>>}
  ELSE {Append(l, [file |-> f, readable |-> r]) :
          l \in ListingsOfLen(n - 1), f \in RasterPaths, r \in BOOLEAN}

\* Lines 221-222: the *.tif matches come first, the *.tiff matches after
\* them; no path is listed twice.
GlobOrder(l) ==
  \A i, j \in 1 .. Len(l) :
    i < j => /\ l[i].file.path # l[j].file.path
             /\ ~(l[i].file.suffix = ".tiff" /\ l[j].file.suffix = ".tif")

Listings == {l \in UNION {ListingsOfLen(n) : n \in 0 .. MaxRasters} : GlobOrder(l)}

\* The output path of single-file mode.
SingleOutput == "out.tif"
OutputPaths == {f.name : f \in RasterPaths} \cup {SingleOutput}

NoFile == [state |-> "absent", label_array |-> <<>>, nodata |-> None]
EarlierFile == [state |-> "earlier", label_array |-> <<>>, nodata |-> None]

MainInit ==
  /\ \E attribute \in {NoneStr, "ML_CATEGORY", "no_such_column"} :
     \E val \in {None, 1, 2} :
     \E bg \in {1, 2} :
     \E single \in BOOLEAN :
       args = [attribute |-> attribute, value_used_for_all_polygons |-> val,
               background_value |-> bg, ignore_value |-> 0,
               unknown_border_size |-> 1, single_file |-> single]
  /\ geopackage \in GeoPackages
  /\ found \in Listings
  /\ args.single_file => Len(found) = 1
  /\ \E old \in {NoFile, EarlierFile} : outputs = [o \in OutputPaths |-> old]
  /\ pc = "validate"
  /\ gdf = [rows |-> <<>>, columns |-> {}]
  /\ raster_files = <<>>
  /\ idx = 0
  /\ opened = {}
  /\ exc = "none"
  /\ LabelIdle
  /\ MergeIdle
  /\ CropIdle

Raise(e) == pc' = "raised" /\ exc' = e

\* Mutation: the background_value check of lines 160-164 left out.
ConfigurationError_without_background_check(a) ==
  \/ a.value_used_for_all_polygons # None /\ a.attribute # NoneStr
  \/ a.value_used_for_all_polygons = None /\ a.attribute = NoneStr

\* Lines 149-164: the configuration is rejected.
ConfigurationError(a) ==
  \/ a.value_used_for_all_polygons # None /\ a.attribute # NoneStr
  \/ a.value_used_for_all_polygons = None /\ a.attribute = NoneStr
  \/ a.value_used_for_all_polygons # None
       /\ a.background_value = a.value_used_for_all_polygons

\* Lines 148-166.
Validate ==
  /\ pc = "validate"
  /\ IF ConfigurationError(args)
     THEN Raise("ValueError")
     ELSE pc' = "load" /\ exc' = exc
  /\ UNCHANGED <<args, geopackage, found, outputs, gdf, raster_files, idx, opened>>
  /\ UNCHANGED <<labelVars, merge, crop>>

\* astype(np.uint8) of an integer column: the value modulo 256.
AsUint8(v) == v % 256

\* Lines 194-205 and 208-209: rows without class value are dropped, the
\* class is cast to uint8 and the area is cached.
CleanRows(rows, attribute_mode) ==
  LET kept == IF attribute_mode
              THEN SelectSeq(rows, LAMBDA r : r.ML_CATEGORY # Missing)
              ELSE rows
  IN  [i \in 1 .. Len(kept) |->
         [geometry |-> kept[i].geometry,
          ML_CATEGORY |-> IF attribute_mode THEN AsUint8(kept[i].ML_CATEGORY)
                          ELSE kept[i].ML_CATEGORY,
          area |-> Area(kept[i].geometry)]]

\* Lines 168-209.
LoadGeopackage ==
  /\ pc = "load"
  /\ IF args.value_used_for_all_polygons = None
        /\ args.attribute \notin GeoPackageColumns
     THEN Raise("ValueError") /\ gdf' = gdf
     ELSE /\ gdf' = [rows |-> CleanRows(geopackage, args.value_used_for_all_polygons = None),
                     columns |-> GeoPackageColumns \cup {"area"}]
          /\ pc' = "discover"
          /\ exc' = exc
  /\ UNCHANGED <<args, geopackage, found, outputs, raster_files, idx, opened>>
  /\ UNCHANGED <<labelVars, merge, crop>>

\* Lines 211-226: single-file mode lists the input itself, batch mode what
\* glob finds; an empty list ends the run.
DiscoverRasters ==
  /\ pc = "discover"
  /\ raster_files' = found
  /\ idx' = 1
  /\ pc' = IF found = <<>> THEN "returned" ELSE "open"
  /\ UNCHANGED <<args, geopackage, found, outputs, gdf, opened, exc>>
  /\ UNCHANGED <<labelVars, merge, crop>>

\* Mutation: the batch naming used in single-file mode too.
output_label_path_batch_only(a, file) == file.name

\* Lines 232-237.
output_label_path(a, file) == IF a.single_file THEN SingleOutput ELSE file.name

\* Lines 249-259: the label array of one raster.
LabelOf(a, frame, file) ==
  process_single_raster_labels(frame.rows, frame.columns, RasterGrid(file),
    a.unknown_border_size, a.background_value, a.ignore_value,
    IF a.value_used_for_all_polygons # None THEN NoneStr ELSE a.attribute,
    a.value_used_for_all_polygons)

\* Lines 241-278: the raster is opened and its label computed, then the
\* output path is opened for writing, which creates (or truncates) the file
\* there.  An unreadable raster raises out of the loop.
OpenRaster ==
  /\ pc = "open"
  /\ LET item == raster_files[idx]
         path == output_label_path(args, item.file)
     IN  IF ~item.readable
         THEN Raise("RasterioIOError") /\ UNCHANGED <<opened, outputs, gdf>>
         ELSE /\ opened' = opened \cup {idx}
              /\ gdf' = gdf_after_call(gdf.rows, gdf.columns, RasterGrid(item.file))
              /\ IF LabelOf(args, gdf, item.file).exc # "none"
                 THEN Raise(LabelOf(args, gdf, item.file).exc) /\ outputs' = outputs
                 ELSE /\ outputs' = [outputs EXCEPT ![path] =
                            [state |-> "partial", label_array |-> <<>>,
                             nodata |-> args.ignore_value]]
                      /\ pc' = "write"
                      /\ exc' = exc
  /\ UNCHANGED <<args, geopackage, found, raster_files, idx>>
  /\ UNCHANGED <<labelVars, merge, crop>>

\* Lines 279-281: dst.write completes and the loop moves on.
WriteLabel ==
  /\ pc = "write"
  /\ LET item == raster_files[idx]
         path == output_label_path(args, item.file)
     IN  outputs' = [outputs EXCEPT ![path] =
           [state |-> "written",
            label_array |-> LabelOf(args, gdf, item.file).label_array,
            nodata |-> args.ignore_value]]
  /\ idx' = idx + 1
  /\ pc' = IF idx = Len(raster_files) THEN "returned" ELSE "open"
  /\ UNCHANGED <<args, geopackage, found, gdf, raster_files, opened, exc>>
  /\ UNCHANGED <<labelVars, merge, crop>>

\* Line 279: dst.write raises (the disk is full, the device fails); the
\* exception leaves the loop and the file stays as far as it was written.
WriteFails ==
  /\ pc = "write"
  /\ Raise("WriteError")
  /\ UNCHANGED <<args, geopackage, found, outputs, gdf, raster_files, idx, opened>>
  /\ UNCHANGED <<labelVars, merge, crop>>

Next ==
  \/ Validate
  \/ LoadGeopackage
  \/ DiscoverRasters
  \/ OpenRaster
  \/ WriteLabel
  \/ WriteFails

Init == MainInit

Spec == Init /\ [][Next]_vars

\* --------------------------------------------------------- merge_with_numpy
\* summed has 11 bands of 10000 x 10000 pixels in the source; the model
\* follows one pixel through MergeBands bands.
MergeBands == 3
MaxProb == 2
MaxImages == 2

Bands == 1 .. MergeBands

\* np.zeros([11, 10000, 10000]) at the pixel followed.
Zeros == [b \in Bands |-> 0]

\* What rasterio.open(im).read() can yield at that pixel: a stack of
\* MergeBands values, a single band, a stack with one band too many.
RECURSIVE StacksOfLen(_)
StacksOfLen(n) ==
  IF n = 0 THEN {<<>>}
  ELSE {Append(a, v) : a \in StacksOfLen(n - 1), v \in 0 .. MaxProb}

\* rasterio.open(im) or .read() raising.
Unreadable == <<0 - 1>>

ReadOutcomes ==
  StacksOfLen(MergeBands) \cup StacksOfLen(1) \cup {[b \in 1 .. MergeBands + 1 |-> 0]}
    \cup {Unreadable}

\* summed + array raises: the read raised, or the band counts cannot be
\* broadcast against each other.
AddRaises(outcome) ==
  outcome = Unreadable \/ (Len(outcome) # MergeBands /\ Len(outcome) # 1)

\* summed + array under numpy broadcasting.
Add(summed, array) ==
  [b \in Bands |-> summed[b] + (IF Len(array) = 1 THEN array[1] ELSE array[b])]

\* One print call: the text printed and the number put into it.
Printed(text, n) == [text |-> text, n |-> n]

\* Mutation: no try/except around the read, the exception leaves the loop.
loop_body_without_except(m, outcome) ==
  IF AddRaises(outcome)
  THEN [m EXCEPT !.pc = "raised",
                 !.stdout = Append(m.stdout, Printed("opening image", m.im))]
  ELSE [m EXCEPT !.summed = Add(m.summed, outcome),
                 !.im = m.im + 1,
                 !.stdout = Append(m.stdout, Printed("opening image", m.im)),
                 !.pc = IF m.im = m.image_paths THEN "argmax" ELSE "loop"]

\* Mutation: the except clause passes without printing.
loop_body_silent_except(m, outcome) ==
  [m EXCEPT !.summed = IF AddRaises(outcome) THEN m.summed ELSE Add(m.summed, outcome),
            !.failed = IF AddRaises(outcome) THEN Append(m.failed, m.im) ELSE m.failed,
            !.im = m.im + 1,
            !.stdout = Append(m.stdout, Printed("opening image", m.im)),
            !.pc = IF m.im = m.image_paths THEN "argmax" ELSE "loop"]

\* Lines 73-79: one turn of the loop over image_paths.
loop_body(m, outcome) ==
  [m EXCEPT !.summed = IF AddRaises(outcome) THEN m.summed ELSE Add(m.summed, outcome),
            !.failed = IF AddRaises(outcome) THEN Append(m.failed, m.im) ELSE m.failed,
            !.im = m.im + 1,
            !.stdout = IF AddRaises(outcome)
                       THEN m.stdout \o <<Printed("opening image", m.im),
                                          Printed("failed to read", m.im)>>
                       ELSE Append(m.stdout, Printed("opening image", m.im)),
            !.pc = IF m.im = m.image_paths THEN "argmax" ELSE "loop"]

\* Mutation: the band number counted from 1.
argmax_one_based(v) ==
  Min({b \in DOMAIN v : \A c \in DOMAIN v : v[c] <= v[b]})

\* Mutation: the index of the last band holding the maximum.
argmax_last(v) ==
  Max({b \in DOMAIN v : \A c \in DOMAIN v : v[c] <= v[b]}) - 1

\* summed.argmax(axis=0): the 0-based index of the first band holding the
\* maximum.
argmax(v) ==
  Min({b \in DOMAIN v : \A c \in DOMAIN v : v[c] <= v[b]}) - 1

\* astype(np.uint8) of the band index.
pred_of(summed) == AsUint8(argmax(summed))

MergeInit ==
  /\ \E n \in 0 .. MaxImages :
       merge = [pc |-> IF n = 0 THEN "argmax" ELSE "loop", image_paths |-> n, im |-> 1,
                summed |-> Zeros, rejected |-> <<>>, failed |-> <<>>, pred |-> None,
                stdout |-> <<Printed("merging files with numpy", n)>>]
  /\ MainIdle
  /\ LabelIdle
  /\ CropIdle

\* Lines 73-79 for the image at position im; rejected keeps what line 77
\* yielded this turn when it could not be added to summed (the unreadable
\* file, the stack of another shape), and is empty when it was added.
ReadImage ==
  /\ merge # <<>>
  /\ merge.pc = "loop"
  /\ \E outcome \in ReadOutcomes :
       merge' = [loop_body(merge, outcome) EXCEPT
                   !.rejected = IF AddRaises(outcome) THEN outcome ELSE <<>>]
  /\ UNCHANGED <<labelVars, mainVars, crop>>

\* Lines 87-116: the arg-max is written by save_tiff and the timings are
\* printed; nothing else is printed at the end of the run.
SavePrediction ==
  /\ merge # <<>>
  /\ merge.pc = "argmax"
  /\ merge' = [merge EXCEPT !.pred = pred_of(merge.summed), !.pc = "done",
                            !.stdout = merge.stdout \o
                              <<Printed("pred.shape", 2), Printed("saved file", 0),
                                Printed("loading all images took", 0),
                                Printed("merge_with_numpy took", 0)>>]
  /\ UNCHANGED <<labelVars, mainVars, crop>>

MergeNext == ReadImage \/ SavePrediction

SpecMerge == MergeInit /\ [][MergeNext]_vars

\* merge_with_numpy runs to its end: the loop is a for loop over a finite
\* list and no step of it blocks.
FairSpecMerge == SpecMerge /\ WF_vars(MergeNext)

\* Lines 87-90 when save_tiff raises: ogr.Open cannot read the shapefile
\* (line 27-28), a corner coordinate is not an integer (lines 34-35) or the
\* write fails (lines 56-57).  pred is computed and its shape printed, the
\* exception leaves merge_with_numpy before "saved file" is printed.
SaveFails ==
  /\ merge # <<>>
  /\ merge.pc = "argmax"
  /\ merge' = [merge EXCEPT !.pred = pred_of(merge.summed), !.pc = "raised",
                            !.stdout = Append(merge.stdout, Printed("pred.shape", 2))]
  /\ UNCHANGED <<labelVars, mainVars, crop>>

MergeSaveNext == ReadImage \/ SavePrediction \/ SaveFails

\* The merge with a save_tiff that may fail.
SpecMergeSave == MergeInit /\ [][MergeSaveNext]_vars

\* ------------------------------------------------------------- crop_geotiff
\* The model follows one pixel row of the raster, RasterWidth pixels of
\* size 1 with the left edge at x = 0.
RasterWidth == 3

\* A path: its folder, the number of "tmp_" prefixes of its file name, and
\* the rest of the name.
Path(dir, tmp) == [dir |-> dir, tmp |-> tmp, stem |-> "a.tif"]

InputPath == Path("in", 0)

\* Line 67: with_name('tmp_' + name), a file next to the input.
tmp_path_of(input_path) == [input_path EXCEPT !.tmp = input_path.tmp + 1]

\* Output paths: the input itself (crop in place), a file in another
\* folder, and the path the temporary file is given.
CropOutputPaths == {InputPath, Path("out", 0), tmp_path_of(InputPath)}

CropFiles == CropOutputPaths \cup {InputPath, tmp_path_of(InputPath)}

NoSuchFile == [exists |-> FALSE, complete |-> FALSE, data |-> <<>>]
CompleteFile(data) == [exists |-> TRUE, complete |-> TRUE, data |-> data]
\* A file created by rasterio.open(path, 'w') and not written yet.
TruncatedFile == [exists |-> TRUE, complete |-> FALSE, data |-> <<>>]

\* The pixels of the input raster.
InputData == [c \in 1 .. RasterWidth |-> c]
\* What an earlier run left at a path.
EarlierData == <<0>>

\* Line 37: from_bounds on the x extent <<left, right>> of bounding_box.
from_bounds(bounding_box) ==
  [col_off |-> bounding_box[1], width |-> bounding_box[2] - bounding_box[1]]

\* Lines 39-41.
OutOfBounds(window, src_width) ==
  window.col_off < 0 \/ window.col_off + window.width > src_width

\* src.read(window=window): the part of the window that lies on the raster.
read_window(src_data, window) ==
  SubSeq(src_data, Max({window.col_off, 0}) + 1,
         Min({window.col_off + window.width, Len(src_data)}))

\* Mutation: the unlink left out, the file stays.
unlink_left_out(files, path) == files

\* pathlib.Path(path).unlink(missing_ok=True).
unlink(files, path) == [files EXCEPT ![path] = NoSuchFile]

\* Mutation: the commented-out variant of lines 75-97, which opens
\* output_path itself for writing.
write_target_direct(input_path, output_path) == output_path

\* Lines 67-68: the path that is opened for writing.
write_target(input_path, output_path) == tmp_path_of(input_path)

\* pathlib.Path(tmp_path).rename(output_path).
rename(files, from, to) ==
  [f \in DOMAIN files |->
     IF f = to THEN files[from]
     ELSE IF f = from THEN NoSuchFile
     ELSE files[f]]

CropInit ==
  /\ \E output_path \in CropOutputPaths :
     \E left \in (0 - 1) .. (RasterWidth - 1) :
     \E right \in (left + 1) .. (RasterWidth + 1) :
     \E old_out \in {NoSuchFile, CompleteFile(EarlierData)} :
     \E old_tmp \in {NoSuchFile, CompleteFile(EarlierData)} :
       crop = [pc |-> "open_input",
               input_path |-> InputPath,
               output_path |-> output_path,
               bounding_box |-> <<left, right>>,
               files |-> [f \in CropFiles |->
                            IF f = InputPath THEN CompleteFile(InputData)
                            ELSE IF f = output_path THEN old_out
                            ELSE IF f = tmp_path_of(InputPath) THEN old_tmp
                            ELSE NoSuchFile],
               src_open |-> FALSE,
               window |-> from_bounds(<<left, right>>),
               data |-> <<>>,
               opened_w |-> {},
               exc |-> "none"]
  /\ MainIdle
  /\ LabelIdle
  /\ MergeIdle

CropStep(next) ==
  /\ crop # <<>>
  /\ crop' = next
  /\ UNCHANGED <<labelVars, mainVars, merge>>

\* Line 35: rasterio.open(input_path).
OpenInput ==
  /\ crop # <<>> /\ crop.pc = "open_input"
  /\ CropStep([crop EXCEPT !.src_open = TRUE, !.pc = "check_window"])

\* Lines 37-43: a window that leaves the raster stops at the input() prompt
\* and then unlinks output_path.
CheckWindow ==
  /\ crop # <<>> /\ crop.pc = "check_window"
  /\ CropStep(IF OutOfBounds(crop.window, RasterWidth)
              THEN [crop EXCEPT !.files = unlink(crop.files, crop.output_path),
                                !.pc = "read"]
              ELSE [crop EXCEPT !.pc = "read"])

\* Line 42: input() finds no standard input and raises EOFError, which
\* leaves the with block (the reader is closed) and the function.
PromptFails ==
  /\ crop # <<>> /\ crop.pc = "check_window"
  /\ OutOfBounds(crop.window, RasterWidth)
  /\ CropStep([crop EXCEPT !.src_open = FALSE, !.pc = "raised", !.exc = "EOFError"])

\* Lines 47 and 53-63: the window is read and the with block ends, closing
\* the reader.
ReadWindow ==
  /\ crop # <<>> /\ crop.pc = "read"
  /\ CropStep([crop EXCEPT !.data = read_window(InputData, crop.window),
                           !.src_open = FALSE,
                           !.pc = "open_tmp"])

\* Lines 48-52: the read raises; output_path is unlinked and the function
\* returns.
ReadFails ==
  /\ crop # <<>> /\ crop.pc = "read"
  /\ CropStep([crop EXCEPT !.files = unlink(crop.files, crop.output_path),
                           !.src_open = FALSE,
                           !.pc = "returned"])

\* Line 68: rasterio.open(tmp_path, 'w') creates or truncates the file.
OpenTmp ==
  /\ crop # <<>> /\ crop.pc = "open_tmp"
  /\ LET target == write_target(crop.input_path, crop.output_path)
     IN  CropStep([crop EXCEPT !.files = [crop.files EXCEPT ![target] = TruncatedFile],
                               !.opened_w = crop.opened_w \cup {target},
                               !.pc = "write_tmp"])

\* Line 69: dst.write(data) and the close of the writer.
WriteTmp ==
  /\ crop # <<>> /\ crop.pc = "write_tmp"
  /\ LET target == write_target(crop.input_path, crop.output_path)
     IN  CropStep([crop EXCEPT !.files = [crop.files EXCEPT ![target] = CompleteFile(crop.data)],
                               !.pc = "rename"])

\* Line 69 raising: the file stays as far as it was written.
WriteTmpFails ==
  /\ crop # <<>> /\ crop.pc = "write_tmp"
  /\ CropStep([crop EXCEPT !.pc = "raised", !.exc = "WriteError"])

\* Line 71.
RenameTmp ==
  /\ crop # <<>> /\ crop.pc = "rename"
  /\ CropStep([crop EXCEPT !.files = rename(crop.files,
                                            write_target(crop.input_path, crop.output_path),
                                            crop.output_path),
                           !.pc = "returned"])

\* Line 71 raising: os.rename cannot move a file to another file system.
RenameFails ==
  /\ crop # <<>> /\ crop.pc = "rename"
  /\ crop.output_path.dir # crop.input_path.dir
  /\ CropStep([crop EXCEPT !.pc = "raised", !.exc = "OSError"])

CropNext ==
  \/ OpenInput
  \/ CheckWindow
  \/ PromptFails
  \/ ReadWindow
  \/ ReadFails
  \/ OpenTmp
  \/ WriteTmp
  \/ WriteTmpFails
  \/ RenameTmp
  \/ RenameFails

SpecCrop == CropInit /\ [][CropNext]_vars

\* -------------------------------------------------------- main_crop_geotiff
\* The check of line 150 asks for 1010 pixels; the rasters followed here
\* are RasterWidth pixels wide and the smallest window kept is
\* MinCropSize pixels.
MinCropSize == 2

\* Ground coordinates are handled doubled, so that an extent can end in the
\* middle of a pixel.  int() of the coordinate x2 / 2: truncation towards
\* zero.
int(x2) == IF x2 >= 0 THEN x2 \div 2 ELSE 0 - ((0 - x2) \div 2)

\* Lines 107-138: the x extent of the shapefile grown by extra_boarder,
\* clamped to the raster's bounds, turned into pixel columns and back into
\* ground coordinates.
AdjustedPixels(extent2, extra_boarder) ==
  LET xmin2 == Max({extent2[1] - 2 * extra_boarder, 0})
      xmax2 == Min({extent2[2] + 2 * extra_boarder, 2 * RasterWidth})
  IN  [xmin_pixel |-> int(xmin2), xmax_pixel |-> int(xmax2)]

\* Doubled x extents of the shapefile: from left of the raster to right of it.
Extents ==
  {e \in ((0 - 5) .. (2 * RasterWidth + 1)) \X ((0 - 5) .. (2 * RasterWidth + 2)) : e[1] < e[2]}

MainCropInit ==
  /\ \E output_path \in CropOutputPaths :
     \E extent2 \in Extents :
     \E extra_boarder \in {0, 1} :
     \E old_out \in {NoSuchFile, CompleteFile(EarlierData)} :
       crop = [pc |-> "main_crop_geotiff",
               input_path |-> InputPath,
               output_path |-> output_path,
               extent |-> extent2,
               extra_boarder |-> extra_boarder,
               bounding_box |-> <<0, 0>>,
               files |-> [f \in CropFiles |->
                            IF f = InputPath THEN CompleteFile(InputData)
                            ELSE IF f = output_path THEN old_out
                            ELSE NoSuchFile],
               src_open |-> FALSE,
               window |-> from_bounds(<<0, 0>>),
               data |-> <<>>,
               opened_w |-> {},
               exc |-> "none"]
  /\ MainIdle
  /\ LabelIdle
  /\ MergeIdle

\* Lines 99-155: a negative pixel coordinate or a window below the minimum
\* size unlinks output_path and returns; otherwise crop_geotiff is called
\* with the adjusted bounding box.
MainCropGeotiff ==
  /\ crop # <<>> /\ crop.pc = "main_crop_geotiff"
  /\ LET px == AdjustedPixels(crop.extent, crop.extra_boarder)
     IN  CropStep(
           IF Min({px.xmin_pixel, px.xmax_pixel}) < 0
           THEN [crop EXCEPT !.files = unlink(crop.files, crop.output_path),
                             !.pc = "returned"]
           ELSE IF px.xmax_pixel - px.xmin_pixel < MinCropSize
           THEN [crop EXCEPT !.files = unlink(crop.files, crop.output_path),
                             !.pc = "returned"]
           ELSE [crop EXCEPT !.bounding_box = <<px.xmin_pixel, px.xmax_pixel>>,
                             !.window = from_bounds(<<px.xmin_pixel, px.xmax_pixel>>),
                             !.pc = "open_input"])

\* crop_geotiff as main_crop_geotiff calls it: the bounding box was clamped
\* to the raster, so the window test of lines 39-41 never stops at the
\* prompt.
MainCropNext ==
  \/ MainCropGeotiff
  \/ OpenInput
  \/ CheckWindow
  \/ ReadWindow
  \/ ReadFails
  \/ OpenTmp
  \/ WriteTmp
  \/ WriteTmpFails
  \/ RenameTmp
  \/ RenameFails

SpecMainCrop == MainCropInit /\ [][MainCropNext]_vars

\* ------------------------------------------------- label builder claims
Finished == ret.exc # "pending"
ReturnedArray == ret.exc = "none"
AttributeMode ==
  call.attr_column = "ML_CATEGORY" /\ call.value_used_for_all_polygons = None

\* geometry a contains geometry b.
Contains(a, b) ==
  a.xmin <= b.xmin /\ b.xmax <= a.xmax /\ a.ymin <= b.ymin /\ b.ymax <= a.ymax

\* Pairs <<i, j>> of store rows: row i is class 1, row j is class 2 and
\* smaller, lies inside row i, and both intersect the tile.
NestedPairs ==
  {ij \in (1 .. Len(call.gdf)) \X (1 .. Len(call.gdf)) :
     /\ call.gdf[ij[1]].ML_CATEGORY = 1
     /\ call.gdf[ij[2]].ML_CATEGORY = 2
     /\ Contains(call.gdf[ij[1]].geometry, call.gdf[ij[2]].geometry)
     /\ Area(call.gdf[ij[1]].geometry) > Area(call.gdf[ij[2]].geometry)
     /\ Intersects(call.gdf[ij[1]].geometry, BBox(call.grid))
     /\ Intersects(call.gdf[ij[2]].geometry, BBox(call.grid))}

\* Pixels of row j's footprint that no third row of at most its area covers.
FootprintOf(ij) ==
  {p \in Pixels(call.grid) :
     /\ CentreInside(call.gdf[ij[2]].geometry, call.grid, p)
     /\ \A k \in 1 .. Len(call.gdf) :
          (k # ij[1] /\ k # ij[2] /\ CentreInside(call.gdf[k].geometry, call.grid, p))
            => Area(call.gdf[k].geometry) > Area(call.gdf[ij[2]].geometry)}

\* C2 as stated: with polygon A (larger, class 1) containing polygon B
\* (smaller, class 2), every pixel of B's footprint in the returned array
\* is class 2, whatever the order of the rows in the store.
C2_FootprintIsClass2 ==
  (ReturnedArray /\ AttributeMode) =>
    \A ij \in NestedPairs : \A p \in FootprintOf(ij) : ret.label_array[p] = 2

\* C2 amended: every pixel of B's footprint in the returned array is class 2
\* or, where the unknown-border pass carved it, ignore_value; it is never
\* A's class 1; with unknown_border_size = 0 all of them are class 2.
C2_FootprintIsClass2OrCarved ==
  (ReturnedArray /\ AttributeMode) =>
    \A ij \in NestedPairs : \A p \in FootprintOf(ij) :
      /\ ret.label_array[p] \in {2, call.ignore_value}
      /\ call.unknown_border_size = 0 => ret.label_array[p] = 2

\* B comes before A in the store, the call returned, and B's footprint
\* holds class 2 without any carving.
C2_Witness ==
  /\ ReturnedArray /\ AttributeMode
  /\ call.unknown_border_size = 0
  /\ \E ij \in NestedPairs :
       /\ ij[2] < ij[1]
       /\ FootprintOf(ij) # {}
       /\ \A p \in FootprintOf(ij) : ret.label_array[p] = 2

\* All orderings of the rows of a store.
RECURSIVE RowOrders(_)
RowOrders(s) ==
  IF s = <<>> THEN {<<>>}
  ELSE UNION {{<<s[i]>> \o t : t \in RowOrders(RemoveAt(s, i))} : i \in 1 .. Len(s)}

\* C3: the returned label array is the same for every permutation of the
\* rows of the store, also when two overlapping polygons of different class
\* have equal area.
C3_PermutationInvariant ==
  ReturnedArray =>
    \A perm \in RowOrders(call.gdf) :
      process_single_raster_labels(perm, call.columns, call.grid,
        call.unknown_border_size, call.background_value, call.ignore_value,
        call.attr_column, call.value_used_for_all_polygons) = ret

\* The mode arguments pass the checks of lines 47-61.
ModeAccepted ==
  /\ (call.attr_column = NoneStr) # (call.value_used_for_all_polygons = None)
  /\ call.attr_column # NotAStr

NoPolygonIntersects ==
  \A i \in 1 .. Len(call.gdf) : ~Intersects(call.gdf[i].geometry, BBox(call.grid))

\* C4: when no polygon of the store intersects the tile's bounding box the
\* call raises nothing and returns a (height, width) array holding
\* background_value everywhere, or ignore_value when background_value is
\* None; nothing is carved, whatever unknown_border_size is.
C4_EmptyIntersectionIsAllFill ==
  (Finished /\ ModeAccepted /\ NoPolygonIntersects) =>
    /\ ret.exc = "none"
    /\ DOMAIN ret.label_array = (1 .. call.grid.height) \X (1 .. call.grid.width)
    /\ \A p \in DOMAIN ret.label_array :
         ret.label_array[p] = IF call.background_value = None
                              THEN call.ignore_value
                              ELSE call.background_value

\* A store holding only polygons away from the tile, the widest border and
\* a background value: the call has returned.
C4_Witness ==
  /\ ReturnedArray /\ NoPolygonIntersects
  /\ call.gdf # <<>>
  /\ call.unknown_border_size = MaxBorder
  /\ call.background_value = 1
  /\ call.attr_column = "no_such_column"

Changed == {p \in DOMAIN recarved : recarved[p] # ret.label_array[p]}

\* C5 as stated: a second carving pass with the same border width changes
\* no pixel of an already carved array.
C5_SecondPassIsNoOp ==
  recarved # <<>> => Changed = {}

\* C5 amended: the second pass changes no pixel exactly when
\* unknown_border_size is 0 or the carved array has no boundary pixel left;
\* otherwise it carves further pixels, and it only ever writes ignore_value.
C5_SecondPassNoOpIffNoBoundary ==
  recarved # <<>> =>
    /\ (Changed = {}) <=>
         (call.unknown_border_size = 0 \/
          \A p \in DOMAIN ret.label_array : \A q \in Neighbours(call.grid, p) :
             ret.label_array[q] = ret.label_array[p])
    /\ \A p \in Changed : recarved[p] = call.ignore_value

\* A second pass that ran with a positive border on an array that was
\* carved by the first pass, and one that ran with border 0 on an array
\* with a class boundary, are both reached; this is the first.
C5_Witness ==
  /\ recarved # <<>>
  /\ call.unknown_border_size > 0
  /\ Changed # {}
  /\ \E p \in DOMAIN ret.label_array : ret.label_array[p] = call.ignore_value

IgnoreSet(arr, ignore_value) == {p \in DOMAIN arr : arr[p] = ignore_value}

\* C6: with everything else fixed, the ignore_value pixels of the output
\* for a border size s1 are a subset of those for any s2 >= s1 (for
\* s2 = s1 the two outputs are the same array).
C6_BorderMonotone ==
  ReturnedArray =>
    \A s2 \in (call.unknown_border_size + 1) .. MaxBorder :
      LET wider == process_single_raster_labels(call.gdf, call.columns, call.grid,
                     s2, call.background_value, call.ignore_value,
                     call.attr_column, call.value_used_for_all_polygons)
      IN  /\ wider.exc = "none"
          /\ IgnoreSet(ret.label_array, call.ignore_value)
                \subseteq IgnoreSet(wider.label_array, call.ignore_value)

\* A call whose border carved some but not all pixels, with a wider border
\* that carves strictly more.
C6_Witness ==
  /\ ReturnedArray
  /\ call.unknown_border_size > 0
  /\ call.unknown_border_size < MaxBorder
  /\ IgnoreSet(ret.label_array, call.ignore_value) # {}
  /\ LET wider == process_single_raster_labels(call.gdf, call.columns, call.grid,
                     MaxBorder, call.background_value, call.ignore_value,
                     call.attr_column, call.value_used_for_all_polygons)
     IN  IgnoreSet(ret.label_array, call.ignore_value)
           # IgnoreSet(wider.label_array, call.ignore_value)

\* ------------------------------------ process_label_generation_main claims
BothSupplied == args.value_used_for_all_polygons # None /\ args.attribute # NoneStr
NeitherSupplied == args.value_used_for_all_polygons = None /\ args.attribute = NoneStr
ValueIsBackground ==
  /\ args.value_used_for_all_polygons # None
  /\ args.value_used_for_all_polygons = args.background_value

NothingWritten == \A o \in DOMAIN outputs : outputs[o].state \in {"absent", "earlier"}

\* C1: with both attribute and value_used_for_all_polygons supplied, or
\* neither, or value_used_for_all_polygons equal to background_value, the
\* run raises a ValueError at once: no raster is ever opened, no output file
\* is created or touched, and the GeoPackage is not even loaded.
C1_RejectedBeforeAnyRaster ==
  (BothSupplied \/ NeitherSupplied \/ ValueIsBackground) =>
    /\ pc \in {"validate", "raised"}
    /\ pc = "raised" => exc = "ValueError"
    /\ opened = {}
    /\ NothingWritten
    /\ gdf.rows = <<>>
    /\ raster_files = <<>>

\* A run given value_used_for_all_polygons = background_value and no
\* attribute, with a readable raster waiting on disk, has raised.
C1_Witness ==
  /\ pc = "raised"
  /\ ValueIsBackground /\ ~BothSupplied
  /\ \E i \in 1 .. Len(found) : found[i].readable

RunEnded == pc \in {"returned", "raised"}

\* C9: in batch label generation an unreadable reference raster is skipped:
\* when the run has ended (and no write failed), every other discovered
\* raster has its label file written.
C9_UnreadableRasterIsSkipped ==
  (RunEnded /\ raster_files # <<>> /\ ~args.single_file /\ exc # "WriteError") =>
    \A i \in 1 .. Len(raster_files) :
      raster_files[i].readable =>
        outputs[output_label_path(args, raster_files[i].file)].state = "written"

\* C10: after a failure no destination path holds a partially written
\* file: it is absent, or holds a complete file.
C10_NoPartialOutputAfterFailure ==
  pc = "raised" => \A o \in DOMAIN outputs : outputs[o].state # "partial"

\* ------------------------------------------------- merge_with_numpy claims
MergeDone == merge.pc = "done"

\* C7: the class written for the pixel is the 0-based index of a band whose
\* summed value is maximal, as an 8-bit unsigned value; sums [5, 2, 7]
\* give class 2.
C7_PredIsArgmaxOfSum ==
  /\ MergeDone =>
       /\ merge.pred \in 0 .. MergeBands - 1
       /\ merge.pred \in 0 .. 255
       /\ \A b \in Bands : merge.summed[b] <= merge.summed[merge.pred + 1]
  /\ pred_of(<<5, 2, 7>>) = 2

\* Two images were summed and the last band holds the strict maximum.
C7_Witness ==
  /\ MergeDone
  /\ merge.image_paths = 2 /\ merge.failed = <<>>
  /\ merge.pred = MergeBands - 1
  /\ \A b \in Bands : b # MergeBands => merge.summed[b] < merge.summed[MergeBands]
  /\ merge.summed[1] > 0

\* A turn of the loop has been taken for image im.
TurnTaken == merge.pc = "loop" /\ merge'.im = merge.im + 1

\* A step of the loop in which the read, or the addition, raised: the turn
\* of image im has been taken and what line 77 yielded could not be added
\* to summed.
ReadFailureStep == TurnTaken /\ merge'.rejected # <<>>

\* The exception that ended the run came out of save_tiff: every image has
\* had its turn and the prediction was computed and handed over.
RaisedInSaveTiff ==
  /\ merge.pc = "raised"
  /\ merge.im = merge.image_paths + 1
  /\ merge.pred = pred_of(merge.summed)

\* C8: a failed read is logged ("failed to read" with the image is printed
\* after its "opening image" line, and nothing else), leaves the running
\* sum as it was, which is what adding an all-zero raster gives, and lets
\* the loop go on to the next image; a turn without a failure prints the
\* "opening image" line alone and adds a raster's values to every band.
\* No exception leaves the loop: the
\* run ends with the prediction of the sum written, every image having had
\* its turn, or with an exception of save_tiff itself.
C8_ReadFailureIsSkipped ==
  /\ [][ReadFailureStep =>
          /\ merge'.stdout = merge.stdout \o <<Printed("opening image", merge.im),
                                                Printed("failed to read", merge.im)>>
          /\ merge'.summed = merge.summed
          /\ merge'.summed = Add(merge.summed, Zeros)
          /\ merge'.failed = Append(merge.failed, merge.im)
          /\ merge'.pc = IF merge.im = merge.image_paths THEN "argmax" ELSE "loop"
          /\ merge'.pred = merge.pred]_vars
  /\ [][TurnTaken /\ merge'.rejected = <<>> =>
          /\ \A b \in Bands : merge'.summed[b] - merge.summed[b] \in 0 .. MaxProb
          /\ merge'.stdout = Append(merge.stdout, Printed("opening image", merge.im))
          /\ merge'.failed = merge.failed]_vars
  /\ [](merge.pc \in {"loop", "argmax", "done"} \/ RaisedInSaveTiff)
  /\ [](MergeDone => /\ merge.im = merge.image_paths + 1
                     /\ merge.pred = pred_of(merge.summed)
                     /\ \E k \in DOMAIN merge.stdout : merge.stdout[k].text = "saved file")

\* The first of two images failed to read, the second was summed, and the
\* prediction is written; the log holds the failure of image 1 alone.
C8_Witness ==
  /\ MergeDone
  /\ merge.image_paths = 2
  /\ merge.failed = <<1>>
  /\ merge.summed # Zeros
  /\ merge.rejected = <<>>
  /\ merge.pred # None
  /\ {merge.stdout[k].n : k \in {j \in DOMAIN merge.stdout :
                                    merge.stdout[j].text = "failed to read"}} = {1}

\* The texts a report of the numbers of merged and of skipped images would
\* be printed with, and what such a report says.
CountTexts == {"succeeded", "merged", "skipped", "failed"}
ReportedCounts ==
  {<<merge.stdout[i].n, merge.stdout[j].n>> : i, j \in
     {k \in DOMAIN merge.stdout :
        /\ merge.stdout[k].text \in CountTexts
        /\ \A l \in DOMAIN merge.stdout :
             merge.stdout[l].text = "opening image" => l < k}}

\* C11: every batch run eventually comes to its end with a report of how
\* many items succeeded and how many were skipped, the two numbers adding up
\* to the number of items discovered.  Stated for the merge over a folder of
\* probability rasters.
C11_EndOfRunCountsReported ==
  <>(/\ MergeDone
     /\ \E c \in ReportedCounts :
          /\ c[1] = merge.image_paths - Len(merge.failed)
          /\ c[2] = Len(merge.failed)
          /\ c[1] + c[2] = merge.image_paths)

\* A class value of a GeoPackage row that does not fit 8 unsigned bits.
OutOfUint8(v) == v # Missing /\ (v < 0 \/ v > 255)
HasOutOfRangeClass ==
  \E i \in DOMAIN geopackage : OutOfUint8(geopackage[i].ML_CATEGORY)
RunInAttributeMode ==
  args.attribute = "ML_CATEGORY" /\ args.value_used_for_all_polygons = None

\* C12: in attribute mode a class value outside 0..255 aborts the run at
\* load time: the run never gets past the load step, the frame never holds
\* a class that no GeoPackage row carries (a wrapped value), and no label
\* file is written.
C12_OutOfRangeClassAborts ==
  (RunInAttributeMode /\ HasOutOfRangeClass) =>
    /\ pc \in {"validate", "load", "raised"}
    /\ \A i \in DOMAIN gdf.rows :
         \E j \in DOMAIN geopackage : gdf.rows[i].ML_CATEGORY = geopackage[j].ML_CATEGORY
    /\ NothingWritten

\* The call selects attribute-column mode with a column the store lacks.
AbsentColumnMode ==
  /\ call.value_used_for_all_polygons = None
  /\ call.attr_column \notin {NoneStr, NotAStr}
  /\ call.attr_column \notin call.columns

\* C13: a call in attribute-column mode with a column name that the store
\* does not have fails with the attribute-not-found error (a ValueError),
\* also when no polygon intersects the tile's bounding box.
C13_AbsentColumnAlwaysFails ==
  (Finished /\ AbsentColumnMode) => ret.exc = "ValueError"

\* The frame the load step of lines 168-209 produces from the GeoPackage.
LoadedStore ==
  [rows |-> CleanRows(geopackage, args.value_used_for_all_polygons = None),
   columns |-> GeoPackageColumns \cup {"area"}]

\* The store without its cached area column, as a caller of the builder
\* may pass it.
AreaLessStore == [rows |-> WithoutArea(gdf.rows), columns |-> gdf.columns \ {"area"}]

\* C14: the label builder leaves the frame it is passed as it was: once the
\* load step is done, and after any number of per-raster calls, the store
\* (rows, their order, columns, values) is the one the load step produced;
\* a call for any raster of the run would leave it so, and a call on the
\* store without its area column leaves that frame without the column.
C14_StoreUnchangedByBuilder ==
  pc \in {"discover", "open", "write", "returned"} =>
    /\ gdf = LoadedStore
    /\ \A i \in DOMAIN raster_files :
         LET grid == RasterGrid(raster_files[i].file)
         IN  /\ gdf_after_call(gdf.rows, gdf.columns, grid) = gdf
             /\ gdf_after_call(AreaLessStore.rows, AreaLessStore.columns, grid)
                  = AreaLessStore

\* Two rasters have been labelled from a store whose rows are not in area
\* order, the first raster lying under both polygons: the frame the call
\* burned from is the sorted one, with the rows the other way round.
C14_Witness ==
  /\ pc = "returned"
  /\ opened = {1, 2}
  /\ Len(gdf.rows) = 2
  /\ gdf.rows[1].area < gdf.rows[2].area
  /\ IntersectingSubset(gdf.rows, BBox(RasterGrid(raster_files[1].file))) = gdf.rows
  /\ LET frames == frames_of_call(gdf.rows, gdf.columns, RasterGrid(raster_files[1].file))
     IN  /\ Len(frames) = 4
         /\ frames[4].rows = <<gdf.rows[2], gdf.rows[1]>>
         /\ frames[1] = gdf

\* The scenario of the 10 x 10 tile: the polygon of class 3 covers columns
\* 0..4, background_value = 1, ignore_value = 0, and the border is one pixel
\* width wide.
HalfTileScenario ==
  /\ call.gdf = LeftPart(5, 3, call.grid)
  /\ call.grid.height = 10 /\ call.grid.width = 10
  /\ call.background_value = 1 /\ call.ignore_value = 0
  /\ call.unknown_border_size = call.grid.xres

\* C15: in that scenario the returned array holds class 3 in columns 0..3,
\* class 1 in columns 6..9 and a band of 0s in columns 4 and 5, on both
\* sides of the seam (columns counted from 0; the model counts from 1).
C15_HalfTileScenario ==
  (Finished /\ HalfTileScenario) =>
    /\ ret.exc = "none"
    /\ DOMAIN ret.label_array = (1 .. 10) \X (1 .. 10)
    /\ \A p \in DOMAIN ret.label_array :
         ret.label_array[p] = IF p[2] <= 4 THEN 3
                              ELSE IF p[2] >= 7 THEN 1
                              ELSE 0

\* The scenario's call has returned, on pixels of size 1.
C15_Witness ==
  /\ ReturnedArray /\ HalfTileScenario
  /\ call.grid.xres = 1
  /\ ret.label_array[<<1, 1>>] = 3
  /\ ret.label_array[<<10, 5>>] = 0
  /\ ret.label_array[<<10, 6>>] = 0
  /\ ret.label_array[<<1, 10>>] = 1

\* The class values of the polygons that intersect the tile: the constant
\* in constant mode, their values in the column named in attribute mode.
IntersectingClasses ==
  LET gdf_subset == WithArea(IntersectingSubset(call.gdf, BBox(call.grid)), call.columns)
  IN  {IF call.value_used_for_all_polygons # None
       THEN call.value_used_for_all_polygons
       ELSE gdf_subset[i][call.attr_column] : i \in 1 .. Len(gdf_subset)}

\* C16: every pixel of every returned label array holds ignore_value,
\* background_value or the class value of a polygon that intersects the
\* tile; no other value appears.
C16_ValuesFromClosedSet ==
  ReturnedArray =>
    \A p \in DOMAIN ret.label_array :
      \/ ret.label_array[p] = call.ignore_value
      \/ call.background_value # None /\ ret.label_array[p] = call.background_value
      \/ ret.label_array[p] \in IntersectingClasses

\* A returned array that holds the ignore value, the background value and a
\* class value, all different.
C16_Witness ==
  /\ ReturnedArray
  /\ call.background_value = 1 /\ call.ignore_value = 3
  /\ \E p, q, r \in DOMAIN ret.label_array :
       /\ ret.label_array[p] = 3
       /\ ret.label_array[q] = 1
       /\ ret.label_array[r] = 2 /\ 2 \in IntersectingClasses

\* The same run configured as a batch.
AsBatch(a) == [a EXCEPT !.single_file = FALSE]

\* C17: in single-file mode the run processes exactly the one raster given
\* and touches no path but the given output path; when it has returned,
\* that path holds the label array and the nodata override a batch run
\* writes for the same raster.
C17_SingleFileIsOneItemBatch ==
  args.single_file =>
    /\ \A o \in DOMAIN outputs :
         o # SingleOutput => outputs[o].state \in {"absent", "earlier"}
    /\ opened \subseteq {1}
    /\ pc = "returned" =>
         /\ raster_files = found /\ Len(raster_files) = 1
         /\ opened = {1}
         /\ outputs[SingleOutput] =
              [state |-> "written",
               label_array |-> LabelOf(AsBatch(args), gdf, raster_files[1].file).label_array,
               nodata |-> AsBatch(args).ignore_value]

\* A single-file run has returned after labelling a raster that lies under
\* the polygons, over an earlier file at the output path.
C17_Witness ==
  /\ args.single_file
  /\ pc = "returned"
  /\ outputs[SingleOutput].state = "written"
  /\ outputs["a.tif"].state = "earlier"
  /\ raster_files[1].file.path = "a.tif"
  /\ \E p \in DOMAIN outputs[SingleOutput].label_array :
       outputs[SingleOutput].label_array[p] \notin {args.background_value, args.ignore_value}

\* The array rasterize returns for the call, before any carving.
RasterizedOfCall ==
  LET gdf_subset == IntersectingSubset(call.gdf, BBox(call.grid))
      fill_value == IF call.background_value # None THEN call.background_value
                    ELSE call.ignore_value
  IN  rasterize(Shapes(sort_values(WithArea(gdf_subset, call.columns)),
                       call.attr_column, call.value_used_for_all_polygons),
                call.grid, fill_value)

\* Pixels whose Euclidean pixel distance to the nearest boundary pixel of
\* arr is strictly below unknown_border_size / (2 * mean resolution);
\* without any boundary pixel there is no such pixel.
WithinHalfBorder(arr, grid, unknown_border_size) ==
  {p \in Pixels(grid) :
     \E q \in Pixels(grid) :
       /\ \E n \in Neighbours(grid, q) : arr[n] # arr[q]
       /\ ((p[1] - q[1]) * (p[1] - q[1]) + (p[2] - q[2]) * (p[2] - q[2]))
            * (grid.xres + grid.yres) * (grid.xres + grid.yres)
          < unknown_border_size * unknown_border_size}

\* C18: when at least one polygon intersects the tile, a pixel of the
\* returned array is overwritten with ignore_value if and only if its
\* distance to the nearest boundary pixel of the rasterized array is
\* strictly less than half of unknown_border_size over the mean pixel
\* resolution; every other pixel keeps its rasterized class, and with
\* unknown_border_size = 0 nothing is carved.
C18_CarvedIffWithinHalfBorder ==
  (ReturnedArray /\ IntersectingSubset(call.gdf, BBox(call.grid)) # <<>>) =>
    /\ \A p \in DOMAIN ret.label_array :
         ret.label_array[p] =
           IF p \in WithinHalfBorder(RasterizedOfCall, call.grid, call.unknown_border_size)
           THEN call.ignore_value
           ELSE RasterizedOfCall[p]
    /\ call.unknown_border_size = 0 => ret.label_array = RasterizedOfCall

\* ------------------------------------------------------- crop_geotiff claims
\* The destination is not among the paths opened for writing.
DestinationNeverOpened == crop.output_path \notin crop.opened_w

\* A step that opens a path for writing opens the temporary path, and the
\* reader on the input is closed by then.
WriterOpensTmpAfterReader ==
  crop'.opened_w # crop.opened_w =>
    /\ ~crop.src_open
    /\ crop'.opened_w = crop.opened_w \cup {tmp_path_of(crop.input_path)}

\* A step that changes the file at the destination is the rename of the
\* completed temporary file, or an unlink.
DestinationChangesByRenameOrUnlink ==
  crop'.files[crop.output_path] # crop.files[crop.output_path] =>
    \/ crop'.files[crop.output_path] = NoSuchFile
    \/ /\ crop.pc = "rename"
       /\ crop.files[tmp_path_of(crop.input_path)] = CompleteFile(crop.data)
       /\ crop'.files[crop.output_path] = CompleteFile(crop.data)

OutputIsTmpPath == crop.output_path = tmp_path_of(crop.input_path)

\* C19 as stated: in crop_geotiff the destination path is never opened for
\* writing, the cropped data is written to the temporary path only after
\* the reader on the input has been closed, and the destination changes
\* only by the rename of the completed temporary file or by an unlink, for
\* every output path, the input path included.
C19_DestinationOnlyRenamed ==
  /\ []DestinationNeverOpened
  /\ [][WriterOpensTmpAfterReader]_vars
  /\ [][DestinationChangesByRenameOrUnlink]_vars

\* C19 amended: the same, for every output path other than the temporary
\* path itself (the input's folder / "tmp_" + the input's file name), the
\* input path included; the writer is opened after the reader is closed for
\* every output path.
C19_DestinationOnlyRenamedUnlessTmp ==
  /\ [](~OutputIsTmpPath => DestinationNeverOpened)
  /\ [][WriterOpensTmpAfterReader]_vars
  /\ [][~OutputIsTmpPath => DestinationChangesByRenameOrUnlink]_vars

\* A crop in place has returned: the input path holds the cropped pixels,
\* a proper part of the raster, and the temporary file is gone.
C19_Witness ==
  /\ crop.pc = "returned"
  /\ crop.output_path = crop.input_path
  /\ crop.data # <<>> /\ crop.data # InputData
  /\ crop.files[crop.output_path] = CompleteFile(crop.data)
  /\ crop.files[tmp_path_of(crop.input_path)] = NoSuchFile
  /\ crop.opened_w = {tmp_path_of(crop.input_path)}

\* ----------------------------------------------------- batch naming claims
\* The output paths that hold a label file written by this run.
WrittenLabels == {o \in DOMAIN outputs : outputs[o].state = "written"}

\* C20: in batch mode each discovered raster's label goes to
\* output_folder/<its file name>; no two discovered rasters are given the
\* same output path, and when the run has returned the output folder holds
\* as many label files of this run as rasters were discovered.
C20_BatchNamingLosesNoItem ==
  (~args.single_file /\ pc \in {"open", "write", "returned"}) =>
    /\ \A i, j \in 1 .. Len(raster_files) :
         i # j => output_label_path(args, raster_files[i].file)
                    # output_label_path(args, raster_files[j].file)
    /\ pc = "returned" => Cardinality(WrittenLabels) = Len(raster_files)

\* ------------------------------------------------------ merge tie claims
\* The 0-based indices of the bands holding the maximal summed value.
MaximalBands ==
  {b - 1 : b \in {b \in Bands : \A c \in Bands : merge.summed[c] <= merge.summed[b]}}

\* C21: when several bands share the maximal summed value the class written
\* is the lowest of their indices; when every image failed to read, or the
\* folder is empty, the sum is all zero and the run ends, without an
\* exception, with class 0 written.
C21_TieGoesToLowestBand ==
  MergeDone =>
    /\ merge.pred \in MaximalBands
    /\ \A b \in MaximalBands : merge.pred <= b
    /\ Len(merge.failed) = merge.image_paths =>
         merge.summed = Zeros /\ merge.pred = 0

\* Both images of the folder failed to read and class 0 is written.
C21_Witness ==
  /\ MergeDone
  /\ merge.image_paths = 2
  /\ merge.failed = <<1, 2>>
  /\ Cardinality(MaximalBands) = MergeBands
  /\ merge.pred = 0

\* ------------------------------------------------- main_crop_geotiff claims
\* The call has returned without cropping: main_crop_geotiff skipped the
\* raster, or the windowed read failed in crop_geotiff.
CropSkipped == crop.pc = "returned" /\ crop.opened_w = {}

InputIntact == crop.files[crop.input_path] = CompleteFile(InputData)

\* C22 as stated: when the crop is skipped the input raster still exists
\* unchanged after the call, also when output_path is the input's path.
C22_SkipKeepsInput ==
  CropSkipped => InputIntact

\* C22 amended: when the crop is skipped, output_path has been unlinked and
\* no other file is touched; the input raster still exists unchanged
\* exactly when output_path is another path than the input's, and a crop in
\* place that is skipped deletes the input.
C22_SkipUnlinksOutputOnly ==
  /\ CropSkipped =>
       /\ crop.files[crop.output_path] = NoSuchFile
       /\ InputIntact <=> crop.output_path # crop.input_path
       /\ \A f \in DOMAIN crop.files :
            (f # crop.output_path /\ f # crop.input_path) => crop.files[f] = NoSuchFile
  /\ crop.pc \in {"open_input", "check_window", "read"} =>
       ~OutOfBounds(crop.window, RasterWidth)

\* A raster whose window came out too small was skipped: the earlier file
\* at the output path in the other folder is gone, the input is as it was.
C22_Witness ==
  /\ CropSkipped
  /\ crop.output_path = Path("out", 0)
  /\ AdjustedPixels(crop.extent, crop.extra_boarder).xmin_pixel = 1
  /\ AdjustedPixels(crop.extent, crop.extra_boarder).xmax_pixel = 2
  /\ crop.files[crop.output_path] = NoSuchFile
  /\ InputIntact

====
